---- MODULE Spec2Model ----
(***************************************************************************)
(* State-machine model of the real-time streaming session of descam_web:   *)
(* the SDK-based GeminiLiveSession (connection handle, text accumulator    *)
(* with its idle-flush timer, outbound senders), the transport callbacks   *)
(* it registers, and the video component's stopStreaming teardown.         *)
(*                                                                         *)
(* Strings are sequences of one-character strings, so that trim() and      *)
(* concatenation are computed, not assumed.  Null handles are 0.           *)
(***************************************************************************)
EXTENDS Integers, Sequences, FiniteSets, TLC

VARIABLES
  session,                \* GeminiLiveSession.session: Null or a connection id
  accumulatedText,        \* GeminiLiveSession.accumulatedText
  textAccumulationTimer,  \* GeminiLiveSession.textAccumulationTimer: Null or a timer id
  connState,              \* transport: state of every connection ever opened
  nextConn,               \* transport: id the next ai.live.connect call gets
  timers,                 \* event loop: pending setTimeout ids -> ms left before they may run
  nextTimer,              \* event loop: id the next window.setTimeout returns
  reconnectPending,       \* event loop: pending setTimeout(() => this.connect(), 100) callbacks
  msgCount,               \* transport: inbound messages delivered so far
  statusLog,              \* status sink: every onStatus argument, in call order
  errorCount,             \* error sink: number of onError calls
  emitted,                \* description sink: every onMessage argument, in call order
  sent,                   \* transport: every message transmitted, in order
  handshakes,             \* transport: connections whose setup message was sent
  nextFrame,              \* caller: id of the next outbound content item
  dropped,                \* observer: ids of content handed to a send call while isConnected() was false
  sendThrew,              \* observer: a send call raised an exception
  turn,                   \* observer: what was delivered since the last turn-complete marker
  lastTurn,               \* observer: the turn closed by the last turn-complete marker
  idle,                   \* observer: time since the last accumulated fragment, text awaiting an event
  lastIdleFlush,          \* observer: the last event emitted by the idle timer
  delivered,              \* observer: all accumulated fragments' text, in arrival order
  cancelled,              \* observer: ids of timers passed to clearTimeout while pending
  fired,                  \* observer: ids of timers whose callback ran
  errorWatch,             \* observer: sink calls since the last transport error of a connected session
  systemInstruction,      \* GeminiLiveSession.config.systemInstruction: its version
  setupInstruction,       \* transport: the instruction version in each connection's setup config
  callLog,                \* observer: sink calls and handshake events with their connection, in order
  afterDisconnect,        \* observer: disconnect() has returned and connect() was not called since
  reconnected,            \* observer: connections started by updateSystemInstruction's delayed connect()
  started,                \* video component: startStreaming has created its GeminiLiveSession
  geminiSession,          \* video component: geminiSession is non-null
  isStreaming,            \* video component: isStreaming
  connectionStatus,       \* video component: connectionStatus
  frameIntervalId,        \* video component: frameIntervalId, Null or an interval id
  intervals,              \* event loop: ids of the active setInterval timers
  videoRecorder,          \* video component: videoRecorder, Null or a recorder id
  recorders,              \* every VideoRecorder created: its fields
  micLive,                \* recorders whose microphone track is live (not stopped)
  nextRun,                \* id the next startVideoRecording gives its interval and recorder
  recordingPending,       \* event loop: pending setTimeout(startVideoRecording, 100) callbacks
  promptPending,          \* event loop: pending initial-prompt setTimeout callbacks
  lastStop,               \* observer: what the last stopStreaming did, in order
  errorMessage,           \* the component's error banner: "", "session" or "microphone"
  orphaned,               \* connections of sessions the component no longer references
  cameraState,            \* camera store: currentCamera, isActive, isScreenSharing
  cameraCalls,            \* observer: the calls made on the camera store, in order
  ws,                     \* WebSocket session: the connection its ws field holds, or Null
  isConnecting            \* WebSocket session: connect() is waiting for its socket to open

sessVars == <<session, accumulatedText, textAccumulationTimer>>
envVars  == <<connState, nextConn, timers, nextTimer, reconnectPending, msgCount>>
sinkVars == <<statusLog, errorCount, emitted, sent, handshakes>>
sendVars == <<nextFrame, dropped, sendThrew>>
accObs   == <<turn, lastTurn, idle, lastIdleFlush, delivered, cancelled, fired>>
appVars == <<orphaned, cameraState, cameraCalls, ws, isConnecting>>
videoVars == <<started, geminiSession, isStreaming, connectionStatus, frameIntervalId, intervals,
               videoRecorder, recorders, micLive, nextRun, recordingPending, promptPending,
               lastStop, errorMessage>>
compVars == <<videoVars, appVars>>
lifeVars == <<systemInstruction, setupInstruction, callLog, afterDisconnect, reconnected>>
vars == <<sessVars, envVars, sinkVars, sendVars, accObs, errorWatch, lifeVars, compVars>>

----------------------------------------------------------------------------
(* Bounds of the model *)

MaxConns == 2        \* connect() calls that pass the guard in one run
MaxMsgs == 3         \* inbound messages handled in one run
MaxSends == 2        \* outbound send calls in one run
TicksPerDelay == 3   \* clock steps that make up the idle delay
MaxCameras == 2      \* camera devices the store is given
MaxCalls == 3        \* calls of the camera store's setters in one run

(* Program constants *)

IdleDelayMs == 300

Null == 0
TickMs == IdleDelayMs \div TicksPerDelay
ConnIds == 1..MaxConns
CameraDevices == 1..MaxCameras
RunIds == 1..MaxConns

(* Texts an inbound message may carry: none, whitespace only, padded on    *)
(* either side, plain.                                                     *)
FragmentTexts ==
  { <<>>, <<" ">>, <<"A">>, <<"B">>, <<" ", "A">>, <<"B", " ">> }

(* Where an inbound message may carry its turn-complete indicator.         *)
TurnMarkers ==
  { "none", "turnComplete", "serverContent.event", "realtimeOutput.event",
    "serverContent.realtimeOutput.event", "serverEvent" }

----------------------------------------------------------------------------
(* String helpers: String.prototype.trim and friends *)

IsSpace(ch) == ch = " "

RECURSIVE TrimStart(_)
TrimStart(s) ==
  IF Len(s) = 0 THEN s
  ELSE IF IsSpace(Head(s)) THEN TrimStart(Tail(s)) ELSE s

RECURSIVE TrimEnd(_)
TrimEnd(s) ==
  IF Len(s) = 0 THEN s
  ELSE IF IsSpace(s[Len(s)]) THEN TrimEnd(SubSeq(s, 1, Len(s) - 1)) ELSE s

Trim(s) == TrimEnd(TrimStart(s))

RECURSIVE Concat(_)
Concat(ss) == IF Len(ss) = 0 THEN <<>> ELSE Head(ss) \o Concat(Tail(ss))

RECURSIVE Squeeze(_)
Squeeze(s) ==
  IF Len(s) = 0 THEN <<>>
  ELSE IF IsSpace(Head(s)) THEN Squeeze(Tail(s)) ELSE <<Head(s)>> \o Squeeze(Tail(s))

----------------------------------------------------------------------------
(* Event-loop timers *)

ClearTimeout(ts, id) == [t \in DOMAIN ts \ {id} |-> ts[t]]

SetTimeout(ts, id, ms) == [t \in DOMAIN ts \cup {id} |-> IF t = id THEN ms ELSE ts[t]]

Range(seq) == {seq[i] : i \in 1..Len(seq)}

Min(a, b) == IF a < b THEN a ELSE b
Max(a, b) == IF a < b THEN b ELSE a

----------------------------------------------------------------------------
(* GeminiLiveSession: the text accumulator *)

\* if (text && text.trim().length > 0)
HasText(text) == Len(text) > 0 /\ Len(Trim(text)) > 0

isTurnComplete(marker) ==
  \/ marker = "turnComplete"
  \/ marker = "serverContent.event"
  \/ marker = "realtimeOutput.event"
  \/ marker = "serverContent.realtimeOutput.event"
  \/ marker = "serverEvent"

\* Variant: each fragment is trimmed before it is appended.
AccumulateTrimmed(acc, text) == acc \o Trim(text)

\* Variant: the fragment of the message is not appended.
DropFragment(acc, text) == acc

\* this.accumulatedText += text
Accumulate(acc, text) == acc \o text

\* Variant: the pending timer is left running.
KeepPendingFlush(ts, handle) == ts

\* if (this.textAccumulationTimer !== null) clearTimeout(this.textAccumulationTimer)
CancelPendingFlush(ts, handle) == IF handle # Null THEN ClearTimeout(ts, handle) ELSE ts

\* Variant: the flush is scheduled one clock step ahead instead of the idle delay.
ScheduleFlushEarly(ts, id) == SetTimeout(ts, id, TickMs)

\* Variant: no flush is scheduled.
ScheduleNoFlush(ts, id) == ts

\* window.setTimeout(() => {...}, 300)
ScheduleFlush(ts, id) == SetTimeout(ts, id, IdleDelayMs)

\* Variant: the turn-complete flush does not look at the buffer.
FlushOnEveryTurn(turnComplete, acc) == turnComplete

\* if (turnComplete && this.accumulatedText.trim().length > 0)
FlushOnTurn(turnComplete, acc) == turnComplete /\ Len(Trim(acc)) > 0

\* the timer callback's if (this.accumulatedText.trim().length > 0)
FlushOnIdle(acc) == Len(Trim(acc)) > 0

\* this.onMessage(this.accumulatedText.trim())
Description(acc) == Trim(acc)

\* Variant: the buffer is kept after an event.
KeepText(acc) == acc

\* this.accumulatedText = ''
ResetText(acc) == <<>>

\* what the observer counts as a fragment with content
NonBlank(text) == \E i \in 1..Len(text) : text[i] # " "

(* onmessage callback of connection c: handleServerMessage(message), the   *)
(* message carrying `text` and the turn-complete indicator `marker`.       *)
HandleServerMessage(c, text, marker) ==
  /\ connState[c] \in {"open", "closing"}
  /\ msgCount < MaxMsgs
  /\ msgCount' = msgCount + 1
  /\ LET turnComplete == isTurnComplete(marker)
         append == HasText(text)
         acc1 == IF append THEN Accumulate(accumulatedText, text) ELSE accumulatedText
         timers1 == IF append
                    THEN ScheduleFlush(CancelPendingFlush(timers, textAccumulationTimer), nextTimer)
                    ELSE timers
         handle1 == IF append THEN nextTimer ELSE textAccumulationTimer
         flush == FlushOnTurn(turnComplete, acc1)
         events == IF flush THEN <<Description(acc1)>> ELSE <<>>
         frags1 == IF Len(text) > 0 THEN Append(turn.frags, text) ELSE turn.frags
         clearedFirst == IF append /\ textAccumulationTimer # Null
                         THEN {textAccumulationTimer} ELSE {}
         clearedLast == IF flush /\ handle1 # Null THEN {handle1} ELSE {}
     IN /\ accumulatedText' = IF flush THEN ResetText(acc1) ELSE acc1
        /\ timers' = IF flush THEN CancelPendingFlush(timers1, handle1) ELSE timers1
        /\ textAccumulationTimer' = IF flush THEN Null ELSE handle1
        /\ nextTimer' = IF append THEN nextTimer + 1 ELSE nextTimer
        /\ emitted' = emitted \o events
        /\ turn' = IF marker # "none"
                   THEN [frags |-> <<>>, expired |-> FALSE, events |-> <<>>]
                   ELSE [turn EXCEPT !.frags = frags1]
        /\ lastTurn' = IF marker # "none"
                       THEN [done |-> TRUE, frags |-> frags1, expired |-> turn.expired,
                             events |-> turn.events \o events, flushed |-> flush,
                             hadPending |-> textAccumulationTimer \in DOMAIN timers,
                             hadText |-> Len(accumulatedText) > 0,
                             pendingAfter |-> DOMAIN timers']
                       ELSE lastTurn
        /\ idle' = [since |-> IF NonBlank(text) THEN 0 ELSE idle.since,
                    pending |-> IF flush THEN <<>>
                                ELSE IF NonBlank(text) THEN idle.pending \o text
                                ELSE idle.pending]
        /\ delivered' = delivered \o Squeeze(text)
        /\ cancelled' = cancelled \cup (clearedFirst \cap DOMAIN timers)
                                   \cup (clearedLast \cap DOMAIN timers1)
  /\ UNCHANGED <<session, connState, nextConn, reconnectPending, statusLog, errorCount,
                 sent, handshakes, sendVars, lastIdleFlush, fired, errorWatch, lifeVars>>

(* The idle timer's callback, run by the event loop once its delay is over. *)
TimerFire(id) ==
  /\ id \in DOMAIN timers
  /\ timers[id] = 0
  /\ timers' = ClearTimeout(timers, id)
  /\ fired' = fired \cup {id}
  /\ LET flush == FlushOnIdle(accumulatedText)
         events == IF flush THEN <<Description(accumulatedText)>> ELSE <<>>
     IN /\ accumulatedText' = IF flush THEN ResetText(accumulatedText) ELSE accumulatedText
        /\ textAccumulationTimer' = IF flush THEN Null ELSE textAccumulationTimer
        /\ emitted' = emitted \o events
        /\ turn' = [turn EXCEPT !.expired = TRUE, !.events = @ \o events]
        /\ lastIdleFlush' = IF flush
                            THEN [done |-> TRUE, elapsed |-> idle.since,
                                  out |-> Description(accumulatedText),
                                  expect |-> Trim(idle.pending),
                                  afterDisconnect |-> afterDisconnect,
                                  closed |-> \A c \in ConnIds : connState[c] # "open"]
                            ELSE lastIdleFlush
        /\ idle' = IF flush THEN [idle EXCEPT !.pending = <<>>] ELSE idle
  /\ UNCHANGED <<session, connState, nextConn, nextTimer, reconnectPending, msgCount,
                 statusLog, errorCount, sent, handshakes, sendVars, lastTurn, delivered,
                 cancelled, errorWatch, lifeVars>>

(* Time passes: every pending timer gets closer to its deadline.  A timer   *)
(* whose delay is over may run late, never early.                           *)
Tick ==
  /\ \E id \in DOMAIN timers : timers[id] > 0
  /\ timers' = [id \in DOMAIN timers |-> Max(timers[id] - TickMs, 0)]
  /\ idle' = [idle EXCEPT !.since = Min(@ + TickMs, IdleDelayMs)]
  /\ UNCHANGED <<sessVars, connState, nextConn, nextTimer, reconnectPending, msgCount,
                 sinkVars, sendVars, turn, lastTurn, lastIdleFlush, delivered, cancelled,
                 fired, errorWatch, lifeVars>>

----------------------------------------------------------------------------
(* GeminiLiveSession: connection lifecycle *)

\* connect(): if (this.session) return
AlreadyConnected(s) == s # Null

\* onclose: this.session = null
HandleAfterClose(s, c) == Null

\* disconnect(): if (this.session) { this.session.close(); this.session = null }
\* session.close() starts the closing handshake of an open connection.
CloseTransport(cs, s) ==
  IF s # Null /\ cs[s] = "open" THEN [cs EXCEPT ![s] = "closing"] ELSE cs

HandleAfterDisconnect(s) == Null

\* What a transport error of connection c does to the observer's watch.
WatchError(c) ==
  IF session = c /\ connState[c] = "open"
  THEN [active |-> TRUE, errors |-> 1, disconnected |-> 1, transmitted |-> FALSE]
  ELSE IF errorWatch.active
       THEN [errorWatch EXCEPT !.errors = @ + 1, !.disconnected = @ + 1]
       ELSE errorWatch

WatchDisconnected ==
  IF errorWatch.active THEN [errorWatch EXCEPT !.disconnected = @ + 1] ELSE errorWatch

WatchOff == [active |-> FALSE, errors |-> 0, disconnected |-> 0, transmitted |-> FALSE]

WatchSent(before, after) ==
  IF errorWatch.active /\ after # before
  THEN [errorWatch EXCEPT !.transmitted = TRUE] ELSE errorWatch

\* An entry of the observer's log: the sink call or handshake event of connection c.
Call(name, c) == [call |-> name, conn |-> c]

\* Variant: the catch block does not call the error sink.
CatchCallsSilent(c) == <<Call("disconnected", c)>>

\* catch (err) { this.onError(`Failed to connect: ...`); this.onStatus('disconnected'); throw err }
CatchCalls(c) == <<Call("error", c), Call("disconnected", c)>>

(* The body of connect().  `ok` is whether ai.live.connect starts a         *)
(* connection (FALSE: it throws, and the catch block runs).  The call then  *)
(* waits for the connection to open; see TransportOpen.                     *)
DoConnect(ok) ==
  /\ IF AlreadyConnected(session)
     THEN UNCHANGED <<session, connState, nextConn, statusLog, errorCount, errorWatch,
                      setupInstruction, callLog>>
     ELSE /\ nextConn <= MaxConns
          /\ nextConn' = nextConn + 1
          /\ setupInstruction' = [setupInstruction EXCEPT ![nextConn] = systemInstruction]
          /\ connState' = [connState EXCEPT ![nextConn] = IF ok THEN "opening" ELSE "failed"]
          /\ statusLog' = IF ok THEN Append(statusLog, "connecting")
                          ELSE statusLog \o <<"connecting", "disconnected">>
          /\ errorCount' = IF ok THEN errorCount ELSE errorCount + 1
          /\ callLog' = callLog \o <<Call("connecting", nextConn)>>
                                  \o (IF ok THEN <<>> ELSE CatchCalls(nextConn))
          /\ errorWatch' = WatchOff
          /\ UNCHANGED session

Connect ==
  /\ \E ok \in BOOLEAN : DoConnect(ok)
  /\ afterDisconnect' = FALSE
  /\ UNCHANGED <<accumulatedText, textAccumulationTimer, timers, nextTimer, reconnectPending,
                 msgCount, emitted, sent, handshakes, sendVars, accObs, systemInstruction,
                 reconnected>>

(* Connection c opens: the onopen callback runs, the SDK sends the setup    *)
(* message, the promise of ai.live.connect resolves and connect() resumes   *)
(* with this.session = <the new session>, all before any other callback.   *)
TransportOpen(c) ==
  /\ connState[c] = "opening"
  /\ connState' = [connState EXCEPT ![c] = "open"]
  /\ statusLog' = Append(statusLog, "connected")
  /\ handshakes' = handshakes \cup {c}
  /\ session' = c
  /\ callLog' = callLog \o <<Call("connected", c), Call("setup", c)>>
  /\ UNCHANGED <<accumulatedText, textAccumulationTimer, nextConn, timers, nextTimer,
                 reconnectPending, msgCount, errorCount, emitted, sent, sendVars, accObs,
                 errorWatch, systemInstruction, setupInstruction, afterDisconnect,
                 reconnected>>

(* onerror callback of connection c. The transport's close event follows.   *)
OnError(c) ==
  /\ connState[c] \in {"opening", "open"}
  /\ connState' = [connState EXCEPT ![c] = "errored"]
  /\ errorCount' = errorCount + 1
  /\ statusLog' = Append(statusLog, "disconnected")
  /\ errorWatch' = WatchError(c)
  /\ callLog' = callLog \o <<Call("error", c), Call("disconnected", c)>>
  /\ UNCHANGED <<sessVars, nextConn, timers, nextTimer, reconnectPending, msgCount,
                 emitted, sent, handshakes, sendVars, accObs, systemInstruction,
                 setupInstruction, afterDisconnect, reconnected>>

(* onclose callback of connection c: after an error, after close(), or when *)
(* the remote end closes.                                                   *)
OnClose(c) ==
  /\ connState[c] \in {"open", "closing", "errored"}
  /\ connState' = [connState EXCEPT ![c] = "closed"]
  /\ statusLog' = Append(statusLog, "disconnected")
  /\ session' = HandleAfterClose(session, c)
  /\ errorWatch' = WatchDisconnected
  /\ callLog' = Append(callLog, Call("disconnected", c))
  /\ UNCHANGED <<accumulatedText, textAccumulationTimer, nextConn, timers, nextTimer,
                 reconnectPending, msgCount, errorCount, emitted, sent, handshakes,
                 sendVars, accObs, systemInstruction, setupInstruction, afterDisconnect,
                 reconnected>>

Disconnect ==
  /\ connState' = CloseTransport(connState, session)
  /\ session' = IF session # Null THEN HandleAfterDisconnect(session) ELSE session
  /\ afterDisconnect' = TRUE
  /\ UNCHANGED <<accumulatedText, textAccumulationTimer, nextConn, timers, nextTimer,
                 reconnectPending, msgCount, sinkVars, sendVars, accObs, errorWatch,
                 systemInstruction, setupInstruction, callLog, reconnected>>

(* updateSystemInstruction(text): this.config.systemInstruction = text and, *)
(* on a session with a handle, disconnect() and                             *)
(* setTimeout(() => this.connect(), 100).                                   *)
UpdateSystemInstruction ==
  /\ systemInstruction < MaxConns
  /\ systemInstruction' = systemInstruction + 1
  /\ IF session # Null
     THEN /\ connState' = CloseTransport(connState, session)
          /\ session' = HandleAfterDisconnect(session)
          /\ reconnectPending' = reconnectPending + 1
          /\ afterDisconnect' = TRUE
     ELSE UNCHANGED <<connState, session, reconnectPending, afterDisconnect>>
  /\ UNCHANGED <<accumulatedText, textAccumulationTimer, nextConn, timers, nextTimer,
                 msgCount, sinkVars, sendVars, accObs, errorWatch, setupInstruction,
                 callLog, reconnected>>

(* The delayed callback of updateSystemInstruction: this.connect().         *)
ReconnectTimer ==
  /\ reconnectPending > 0
  /\ reconnectPending' = reconnectPending - 1
  /\ \E ok \in BOOLEAN : DoConnect(ok)
  /\ afterDisconnect' = FALSE
  /\ reconnected' = IF AlreadyConnected(session) THEN reconnected
                    ELSE reconnected \cup {nextConn}
  /\ UNCHANGED <<accumulatedText, textAccumulationTimer, timers, nextTimer, msgCount,
                 emitted, sent, handshakes, sendVars, accObs, systemInstruction>>

(* An inbound message of connection c that carries neither text nor a       *)
(* turn-complete indicator goes through handleServerMessage: nothing is     *)
(* appended, and the turn-complete flush does not apply.                    *)
HandleSilentMessage(c, kind) ==
  /\ connState[c] \in {"open", "closing"}
  /\ callLog' = Append(callLog, Call(kind, c))
  /\ LET flush == FlushOnTurn(isTurnComplete("none"), accumulatedText)
     IN /\ emitted' = IF flush THEN Append(emitted, Description(accumulatedText)) ELSE emitted
        /\ accumulatedText' = IF flush THEN ResetText(accumulatedText) ELSE accumulatedText
  /\ UNCHANGED <<session, textAccumulationTimer, connState, nextConn, timers, nextTimer,
                 reconnectPending, statusLog, errorCount, sent, handshakes, sendVars,
                 accObs, errorWatch, systemInstruction, setupInstruction, afterDisconnect,
                 reconnected>>

(* The server's setupComplete message, the acknowledgement of the setup     *)
(* message of connection c: handleServerMessage logs it and returns.        *)
SetupComplete(c) ==
  /\ Call("setup", c) \in Range(callLog)
  /\ Call("setupComplete", c) \notin Range(callLog)
  /\ HandleSilentMessage(c, "setupComplete")
  /\ UNCHANGED msgCount

(* An inbound message of connection c with an error payload (response.error *)
(* and the other places extractErrorMessage knows): handleServerMessage     *)
(* never calls extractErrorMessage, so the message is only logged.          *)
RemoteError(c) ==
  /\ msgCount < MaxMsgs
  /\ msgCount' = msgCount + 1
  /\ HandleSilentMessage(c, "remoteError")

----------------------------------------------------------------------------
(* GeminiLiveSession: outbound senders *)

\* Variant: the senders do not check the handle.
SendUnguarded(s) == TRUE

\* if (!this.session) { console.warn(...); return }
SendGuard(s) == s # Null

\* Variant: the transport puts a new message ahead of those already written.
TransmitAhead(log, c, msg) ==
  IF connState[c] = "open" THEN <<[msg EXCEPT !.conn = c]>> \o log ELSE log

\* session.sendRealtimeInput / sendClientContent: the transport transmits on
\* an open connection and discards what is written to one that is not open.
Transmit(log, c, msg) ==
  IF connState[c] = "open" THEN Append(log, [msg EXCEPT !.conn = c]) ELSE log

Message(kind, id, tc) == [conn |-> Null, kind |-> kind, id |-> id, turnComplete |-> tc]

(* One realtime-input call: sendVideoFrame(frame) or sendAudioChunk(data).  *)
SendRealtime(kind) ==
  /\ nextFrame <= MaxSends
  /\ nextFrame' = nextFrame + 1
  /\ dropped' = IF session = Null THEN dropped \cup {nextFrame} ELSE dropped
  /\ IF ~SendGuard(session)
     THEN UNCHANGED <<sent, sendThrew>>
     ELSE IF session = Null
          THEN /\ sendThrew' = TRUE      \* null.sendRealtimeInput(...): TypeError
               /\ UNCHANGED sent
          ELSE /\ sent' = Transmit(sent, session, Message(kind, nextFrame, FALSE))
               /\ UNCHANGED sendThrew
  /\ errorWatch' = WatchSent(sent, sent')
  /\ UNCHANGED <<sessVars, envVars, statusLog, errorCount, emitted, handshakes, accObs,
                 lifeVars>>

SendVideoFrame == SendRealtime("video")

SendAudioChunk == SendRealtime("audio")

(* sendPrompt({text?, frame?}, turnComplete): the frame through             *)
(* sendVideoFrame, then the text through sendTextPrompt.                    *)
SendPrompt(hasText, hasFrame, turnComplete) ==
  /\ nextFrame <= MaxSends
  /\ nextFrame' = nextFrame + 1
  /\ dropped' = IF session = Null THEN dropped \cup {nextFrame} ELSE dropped
  /\ IF ~SendGuard(session)
     THEN UNCHANGED <<sent, sendThrew>>
     ELSE IF session = Null
          THEN /\ sendThrew' = (hasText \/ hasFrame \/ sendThrew)
               /\ UNCHANGED sent
          ELSE LET afterFrame == IF hasFrame
                                 THEN Transmit(sent, session, Message("video", nextFrame, FALSE))
                                 ELSE sent
               IN /\ sent' = IF hasText
                             THEN Transmit(afterFrame, session,
                                           Message("text", nextFrame, turnComplete))
                             ELSE afterFrame
                  /\ UNCHANGED sendThrew
  /\ errorWatch' = WatchSent(sent, sent')
  /\ UNCHANGED <<sessVars, envVars, statusLog, errorCount, emitted, handshakes, accObs,
                 lifeVars>>

----------------------------------------------------------------------------
(* VideoRecorder *)

NoRecorder ==
  [created |-> FALSE, awaitingMic |-> FALSE, audioContext |-> FALSE,
   audioWorkletNode |-> FALSE, microphoneStream |-> FALSE, micFailedAt |-> 0]

\* new VideoRecorder(...); start() -> startMicrophoneAudio() awaiting getUserMedia
NewRecorder == [NoRecorder EXCEPT !.created = TRUE, !.awaitingMic = TRUE]

\* VideoRecorder.stop(): the fields it clears
RecorderAfterStop(rec) ==
  [rec EXCEPT !.audioWorkletNode = FALSE, !.audioContext = FALSE, !.microphoneStream = FALSE]

----------------------------------------------------------------------------
(* Video component: stopStreaming *)

NoStop ==
  [ran |-> FALSE, effects |-> <<>>, threw |-> FALSE, hadTimer |-> FALSE,
   hadMic |-> FALSE, hadSession |-> FALSE, timerLeft |-> FALSE, micLeft |-> FALSE]

(* The part of the state stopStreaming and the calls it makes work on.      *)
CompState ==
  [isStreaming |-> isStreaming, frameIntervalId |-> frameIntervalId, intervals |-> intervals,
   videoRecorder |-> videoRecorder, recorders |-> recorders, micLive |-> micLive,
   geminiSession |-> geminiSession, session |-> session, connState |-> connState,
   connectionStatus |-> connectionStatus, errorMessage |-> errorMessage,
   effects |-> <<>>, threw |-> FALSE]

\* Variant: the session is disconnected before local capture is stopped.
TeardownTransportFirst == <<"geminiSession", "frameTimer", "videoRecorder">>

\* The order of stopStreaming's three teardown blocks.
TeardownOrder == <<"frameTimer", "videoRecorder", "geminiSession">>

\* if (frameIntervalId !== null) { clearInterval(frameIntervalId); frameIntervalId = null }
StopFrameTimer(st) ==
  IF st.frameIntervalId # Null
  THEN [st EXCEPT !.intervals = @ \ {st.frameIntervalId}, !.frameIntervalId = Null,
                  !.effects = Append(@, "clearInterval")]
  ELSE st

\* if (videoRecorder) { videoRecorder.stop(); videoRecorder = null }
StopRecorder(st) ==
  IF st.videoRecorder # Null
  THEN LET r == st.videoRecorder
           rec == st.recorders[r]
       IN [st EXCEPT !.recorders = [@ EXCEPT ![r] = RecorderAfterStop(rec)],
                     !.micLive = IF rec.microphoneStream THEN @ \ {r} ELSE @,
                     !.videoRecorder = Null,
                     !.effects = @ \o (IF rec.audioContext THEN <<"audioContext.close">> ELSE <<>>)
                                   \o (IF rec.microphoneStream THEN <<"track.stop">> ELSE <<>>)]
  ELSE st

\* if (geminiSession) { geminiSession.disconnect(); geminiSession = null }
\* closeThrows: session.close() raises, which ends stopStreaming there.
StopSession(st, closeThrows) ==
  IF ~st.geminiSession THEN st
  ELSE IF st.session = Null THEN [st EXCEPT !.geminiSession = FALSE]
  ELSE IF closeThrows
       THEN [st EXCEPT !.effects = Append(@, "session.close"), !.threw = TRUE]
       ELSE [st EXCEPT !.connState = CloseTransport(@, st.session),
                       !.session = HandleAfterDisconnect(st.session),
                       !.geminiSession = FALSE,
                       !.effects = Append(@, "session.close")]

StopStep(st, step, closeThrows) ==
  IF st.threw THEN st
  ELSE IF step = "frameTimer" THEN StopFrameTimer(st)
  ELSE IF step = "videoRecorder" THEN StopRecorder(st)
  ELSE StopSession(st, closeThrows)

(* stopStreaming() run on state st.                                         *)
StopStreamingOn(st, closeThrows) ==
  LET s0 == [st EXCEPT !.isStreaming = FALSE, !.effects = <<>>, !.threw = FALSE]
      s1 == StopStep(s0, TeardownOrder[1], closeThrows)
      s2 == StopStep(s1, TeardownOrder[2], closeThrows)
      s3 == StopStep(s2, TeardownOrder[3], closeThrows)
  IN IF s3.threw THEN s3 ELSE [s3 EXCEPT !.connectionStatus = "disconnected"]

(* What the observer keeps of a stopStreaming that turned `before` into     *)
(* `after`.                                                                 *)
StopRecord(before, after) ==
  [ran |-> TRUE, effects |-> after.effects, threw |-> after.threw,
   hadTimer |-> before.frameIntervalId # Null,
   hadMic |-> before.videoRecorder # Null
                /\ before.recorders[before.videoRecorder].microphoneStream,
   hadSession |-> before.geminiSession /\ before.session # Null,
   timerLeft |-> before.frameIntervalId # Null /\ before.frameIntervalId \in after.intervals,
   micLeft |-> before.videoRecorder # Null /\ before.videoRecorder \in after.micLive]

\* Whether the session's disconnect() has returned once stopStreaming is over.
DisconnectReturned(before, after) ==
  IF before.geminiSession /\ ~after.threw THEN TRUE ELSE afterDisconnect

SetCompState(st) ==
  /\ isStreaming' = st.isStreaming
  /\ frameIntervalId' = st.frameIntervalId
  /\ intervals' = st.intervals
  /\ videoRecorder' = st.videoRecorder
  /\ recorders' = st.recorders
  /\ micLive' = st.micLive
  /\ geminiSession' = st.geminiSession
  /\ session' = st.session
  /\ connState' = st.connState
  /\ connectionStatus' = st.connectionStatus
  /\ errorMessage' = st.errorMessage

(* The stop button, or the component's onDestroy.                           *)
StopStreaming ==
  /\ \E closeThrows \in BOOLEAN :
       LET after == StopStreamingOn(CompState, closeThrows)
       IN /\ SetCompState(after)
          /\ lastStop' = StopRecord(CompState, after)
          /\ afterDisconnect' = DisconnectReturned(CompState, after)
  /\ UNCHANGED <<accumulatedText, textAccumulationTimer, nextConn, timers, nextTimer,
                 reconnectPending, msgCount, sinkVars, sendVars, accObs, errorWatch,
                 systemInstruction, setupInstruction, callLog, reconnected,
                 appVars, started, nextRun, recordingPending, promptPending>>

----------------------------------------------------------------------------
(* Video component: startStreaming and the sinks it gives its session *)

\* the status sink: connectionStatus = status; on 'connected',
\* setTimeout(() => startVideoRecording(), 100)
StatusSink(status) ==
  /\ connectionStatus' = status
  /\ recordingPending' = IF status = "connected" THEN recordingPending + 1
                         ELSE recordingPending

(* startStreaming(): geminiSession = new GeminiLiveSession(...), then       *)
(* await geminiSession.connect().  When ai.live.connect throws, the error   *)
(* sink runs stopStreaming, the status sink gets 'disconnected', and the    *)
(* catch block of startStreaming runs stopStreaming again.                  *)
StartSession ==
  /\ session = Null
  /\ \E ok \in BOOLEAN :
       /\ DoConnect(ok)
       /\ IF ok
          THEN /\ geminiSession' = TRUE
               /\ StatusSink("connecting")
               /\ errorMessage' = ""
               /\ UNCHANGED <<isStreaming, frameIntervalId, intervals, videoRecorder,
                              recorders, micLive, lastStop>>
          ELSE LET created == [CompState EXCEPT !.geminiSession = TRUE,
                                                !.connectionStatus = "connecting",
                                                !.errorMessage = "session"]
                   first == StopStreamingOn(created, FALSE)
                   second == StopStreamingOn(first, FALSE)
               IN /\ isStreaming' = second.isStreaming
                  /\ frameIntervalId' = second.frameIntervalId
                  /\ intervals' = second.intervals
                  /\ videoRecorder' = second.videoRecorder
                  /\ recorders' = second.recorders
                  /\ micLive' = second.micLive
                  /\ geminiSession' = second.geminiSession
                  /\ connectionStatus' = second.connectionStatus
                  /\ errorMessage' = second.errorMessage
                  /\ lastStop' = StopRecord(first, second)
                  /\ UNCHANGED recordingPending
       /\ afterDisconnect' = ~ok
  /\ UNCHANGED <<accumulatedText, textAccumulationTimer, timers, nextTimer, reconnectPending,
                 msgCount, emitted, sent, handshakes, sendVars, accObs, systemInstruction,
                 reconnected, nextRun, promptPending, cameraState, cameraCalls, ws,
                 isConnecting>>

(* The first startStreaming() of the component.                             *)
StartStreaming ==
  /\ ~started
  /\ started' = TRUE
  /\ StartSession
  /\ UNCHANGED orphaned

(* startStreaming() invoked again while the Start button is shown           *)
(* (!isStreaming): geminiSession is overwritten with a new session, and the *)
(* connections of the sessions created before belong to objects the         *)
(* component no longer references.  The session being replaced holds no     *)
(* handle, text or timer.                                                   *)
RestartStreaming ==
  /\ started
  /\ ~isStreaming
  /\ accumulatedText = <<>>
  /\ textAccumulationTimer = Null
  /\ reconnectPending = 0
  /\ orphaned' = 1..(nextConn - 1)
  /\ StartSession
  /\ UNCHANGED started

(* Connection c of a replaced session opens: its status sink, shared with   *)
(* the component, gets 'connected', its connect() returns and the           *)
(* startStreaming() that awaited it sets isStreaming.  The handle goes to   *)
(* the replaced session object.                                             *)
OrphanTransportOpen(c) ==
  /\ c \in orphaned
  /\ connState[c] = "opening"
  /\ connState' = [connState EXCEPT ![c] = "open"]
  /\ statusLog' = Append(statusLog, "connected")
  /\ handshakes' = handshakes \cup {c}
  /\ callLog' = callLog \o <<Call("connected", c), Call("setup", c)>>
  /\ StatusSink("connected")
  /\ isStreaming' = IF c \in reconnected THEN isStreaming ELSE TRUE
  /\ UNCHANGED <<sessVars, nextConn, timers, nextTimer, reconnectPending, msgCount,
                 errorCount, emitted, sent, sendVars, accObs, errorWatch, systemInstruction,
                 setupInstruction, afterDisconnect, reconnected, appVars, started,
                 geminiSession, frameIntervalId, intervals, videoRecorder, recorders, micLive,
                 nextRun, promptPending, lastStop, errorMessage>>

(* onclose of connection c of a replaced session.                           *)
OrphanOnClose(c) ==
  /\ c \in orphaned
  /\ connState[c] \in {"open", "closing", "errored"}
  /\ connState' = [connState EXCEPT ![c] = "closed"]
  /\ statusLog' = Append(statusLog, "disconnected")
  /\ callLog' = Append(callLog, Call("disconnected", c))
  /\ StatusSink("disconnected")
  /\ UNCHANGED <<sessVars, nextConn, timers, nextTimer, reconnectPending, msgCount,
                 errorCount, emitted, sent, handshakes, sendVars, accObs, errorWatch,
                 systemInstruction, setupInstruction, afterDisconnect, reconnected, appVars,
                 started, geminiSession, isStreaming, frameIntervalId, intervals,
                 videoRecorder, recorders, micLive, nextRun, promptPending, lastStop,
                 errorMessage>>

(* Connection c of the component's session opens: the status sink gets      *)
(* 'connected', connect() returns and, when startStreaming awaits it,       *)
(* startStreaming sets isStreaming.                                         *)
VideoTransportOpen(c) ==
  /\ c \notin orphaned
  /\ TransportOpen(c)
  /\ StatusSink("connected")
  /\ isStreaming' = IF c \in reconnected THEN isStreaming ELSE TRUE
  /\ UNCHANGED <<appVars, errorMessage,
                 started, geminiSession, frameIntervalId, intervals, videoRecorder, recorders,
                 micLive, nextRun, promptPending, lastStop>>

(* onerror of connection c: the error sink runs stopStreaming, then the     *)
(* status sink gets 'disconnected' (unless stopStreaming threw).            *)
VideoOnError(c) ==
  /\ c \notin orphaned
  /\ connState[c] \in {"opening", "open"}
  /\ \E closeThrows \in BOOLEAN :
       LET before == [CompState EXCEPT !.connState = [connState EXCEPT ![c] = "errored"],
                                       !.errorMessage = "session"]
           stopped == StopStreamingOn(before, closeThrows)
       IN /\ SetCompState(stopped)
          /\ lastStop' = StopRecord(before, stopped)
          /\ statusLog' = IF stopped.threw THEN statusLog
                          ELSE Append(statusLog, "disconnected")
          /\ callLog' = IF stopped.threw THEN Append(callLog, Call("error", c))
                        ELSE callLog \o <<Call("error", c), Call("disconnected", c)>>
          /\ afterDisconnect' = DisconnectReturned(before, stopped)
  /\ errorCount' = errorCount + 1
  /\ errorWatch' = WatchError(c)
  /\ UNCHANGED <<accumulatedText, textAccumulationTimer, nextConn, timers, nextTimer,
                 reconnectPending, msgCount, emitted, sent, handshakes, sendVars, accObs,
                 systemInstruction, setupInstruction, reconnected,
                 appVars, started, nextRun, recordingPending, promptPending>>

VideoOnClose(c) ==
  /\ c \notin orphaned
  /\ OnClose(c)
  /\ StatusSink("disconnected")
  /\ UNCHANGED <<appVars, errorMessage,
                 started, geminiSession, isStreaming, frameIntervalId, intervals,
                 videoRecorder, recorders, micLive, nextRun, promptPending, lastStop>>

\* sendFrame: if (!videoElement || !geminiSession?.isConnected()) return
FrameSent(log) ==
  IF geminiSession /\ session # Null
  THEN Transmit(log, session, Message("video", nextFrame, FALSE))
  ELSE log

(* The delayed startVideoRecording(): first frame, the repeating frame      *)
(* timer, the initial-prompt timer, a new VideoRecorder and its start().    *)
StartVideoRecording ==
  /\ recordingPending > 0
  /\ recordingPending' = recordingPending - 1
  /\ IF ~geminiSession
     THEN UNCHANGED <<sent, nextFrame, frameIntervalId, intervals, videoRecorder, recorders,
                      nextRun, promptPending>>
     ELSE /\ nextRun <= MaxConns
          /\ sent' = FrameSent(sent)
          /\ nextFrame' = nextFrame + 1
          /\ frameIntervalId' = nextRun
          /\ intervals' = intervals \cup {nextRun}
          /\ promptPending' = promptPending + 1
          /\ videoRecorder' = nextRun
          /\ recorders' = [recorders EXCEPT ![nextRun] = NewRecorder]
          /\ nextRun' = nextRun + 1
  /\ UNCHANGED <<sessVars, envVars, statusLog, errorCount, emitted, handshakes, dropped,
                 sendThrew, accObs, errorWatch, lifeVars, appVars, errorMessage,
                 started, geminiSession, isStreaming,
                 connectionStatus, micLive, lastStop>>

(* getUserMedia of recorder r resolves: startMicrophoneAudio keeps the      *)
(* stream and builds the audio graph.                                       *)
MicGranted(r) ==
  /\ recorders[r].awaitingMic
  /\ recorders' = [recorders EXCEPT ![r] = [@ EXCEPT !.awaitingMic = FALSE,
                                                    !.microphoneStream = TRUE,
                                                    !.audioContext = TRUE,
                                                    !.audioWorkletNode = TRUE]]
  /\ micLive' = micLive \cup {r}
  /\ UNCHANGED <<sessVars, envVars, sinkVars, sendVars, accObs, errorWatch, lifeVars, appVars, errorMessage,
                 started,
                 geminiSession, isStreaming, connectionStatus, frameIntervalId, intervals,
                 videoRecorder, nextRun, recordingPending, promptPending, lastStop>>

\* Variant: a microphone failure ends the streaming run.
StopOnMicFailure(st) == StopStreamingOn([st EXCEPT !.errorMessage = "microphone"], FALSE)

\* videoRecorder.start().catch(...): errorMessage = the microphone error;
\* statusMessage = ''; nothing else.
AfterMicFailure(st) == [st EXCEPT !.errorMessage = "microphone"]

(* getUserMedia of recorder r rejects: startMicrophoneAudio rethrows,       *)
(* start() rejects and the component's catch handler runs.                  *)
MicDenied(r) ==
  /\ recorders[r].awaitingMic
  /\ LET rejected == [CompState EXCEPT !.recorders[r].awaitingMic = FALSE,
                                       !.recorders[r].micFailedAt = nextFrame]
     IN SetCompState(AfterMicFailure(rejected))
  /\ UNCHANGED <<accumulatedText, textAccumulationTimer, nextConn, timers, nextTimer,
                 reconnectPending, msgCount, sinkVars, sendVars, accObs, errorWatch, lifeVars,
                 appVars, started, nextRun, recordingPending, promptPending, lastStop>>

(* The repeating frame timer i runs sendFrame.                              *)
FrameTick(i) ==
  /\ i \in intervals
  /\ nextFrame <= MaxSends
  /\ nextFrame' = nextFrame + 1
  /\ sent' = FrameSent(sent)
  /\ UNCHANGED <<sessVars, envVars, statusLog, errorCount, emitted, handshakes, dropped,
                 sendThrew, accObs, errorWatch, lifeVars, compVars>>

(* The initial-prompt timer: sendPrompt({text}, true) if connected.         *)
InitialPrompt ==
  /\ promptPending > 0
  /\ promptPending' = promptPending - 1
  /\ sent' = IF geminiSession /\ session # Null
             THEN Transmit(sent, session, Message("text", nextFrame, TRUE))
             ELSE sent
  /\ nextFrame' = nextFrame + 1
  /\ UNCHANGED <<sessVars, envVars, statusLog, errorCount, emitted, handshakes, dropped,
                 sendThrew, accObs, errorWatch, lifeVars, appVars, errorMessage,
                 started, geminiSession, isStreaming,
                 connectionStatus, frameIntervalId, intervals, videoRecorder, recorders,
                 micLive, nextRun, recordingPending, lastStop>>

(* handleResetPrompt(): if (geminiSession?.isConnected())                   *)
(* geminiSession.updateSystemInstruction(customPrompt).                     *)
HandleResetPrompt ==
  /\ geminiSession
  /\ session # Null
  /\ UpdateSystemInstruction
  /\ UNCHANGED compVars

(* The delayed connect() of updateSystemInstruction, on the component's     *)
(* session.                                                                 *)
VideoReconnectTimer ==
  /\ reconnectPending > 0
  /\ reconnectPending' = reconnectPending - 1
  /\ DoConnect(TRUE)
  /\ IF AlreadyConnected(session)
     THEN UNCHANGED <<connectionStatus, recordingPending>>
     ELSE StatusSink("connecting")
  /\ afterDisconnect' = FALSE
  /\ reconnected' = IF AlreadyConnected(session) THEN reconnected
                    ELSE reconnected \cup {nextConn}
  /\ UNCHANGED <<accumulatedText, textAccumulationTimer, timers, nextTimer, msgCount,
                 emitted, sent, handshakes, sendVars, accObs, systemInstruction, appVars, errorMessage,
                 started,
                 geminiSession,
                 isStreaming, frameIntervalId, intervals, videoRecorder, recorders, micLive,
                 nextRun, promptPending, lastStop>>

----------------------------------------------------------------------------
(* Camera store *)

\* setCurrentCamera(camera); camera is a device or Null.
AfterSetCurrentCamera(st, camera) ==
  LET s1 == [st EXCEPT !.currentCamera = camera, !.isActive = (camera # Null)]
  IN IF camera # Null THEN [s1 EXCEPT !.isScreenSharing = FALSE]
     ELSE IF ~s1.isScreenSharing THEN [s1 EXCEPT !.isActive = FALSE]
     ELSE s1

\* setScreenSharingActive(isActive)
AfterSetScreenSharingActive(st, isActive) ==
  LET s1 == [st EXCEPT !.isScreenSharing = isActive]
  IN IF isActive THEN [s1 EXCEPT !.currentCamera = Null, !.isActive = TRUE]
     ELSE IF s1.currentCamera = Null THEN [s1 EXCEPT !.isActive = FALSE]
     ELSE s1

SetCurrentCamera(camera) ==
  /\ Len(cameraCalls) < MaxCalls
  /\ cameraState' = AfterSetCurrentCamera(cameraState, camera)
  /\ cameraCalls' = Append(cameraCalls, [op |-> "setCurrentCamera", camera |-> camera,
                                          isActive |-> FALSE])
  /\ UNCHANGED <<sessVars, envVars, sinkVars, sendVars, accObs, errorWatch, lifeVars, videoVars,
                 orphaned, ws, isConnecting>>

SetScreenSharingActive(isActive) ==
  /\ Len(cameraCalls) < MaxCalls
  /\ cameraState' = AfterSetScreenSharingActive(cameraState, isActive)
  /\ cameraCalls' = Append(cameraCalls, [op |-> "setScreenSharingActive", camera |-> Null,
                                          isActive |-> isActive])
  /\ UNCHANGED <<sessVars, envVars, sinkVars, sendVars, accObs, errorWatch, lifeVars, videoVars,
                 orphaned, ws, isConnecting>>

----------------------------------------------------------------------------
(* WebSocket session (lib/gemini.ts) *)

\* What arrives in one WebSocket message event: text that is not JSON, JSON
\* null, or one of the message shapes handleServerMessage distinguishes.
WsPayloads == {"malformed", "null", "setupComplete", "text", "noText", "toolCall", "unknown"}

\* The sink calls one message event makes.
NoSinkCalls == [messages |-> <<>>, errors |-> 0, statuses |-> <<>>]

\* Variant: a message that cannot be handled is reported as a failure of the session.
ReportParseFailure == [messages |-> <<>>, errors |-> 1, statuses |-> <<"disconnected">>]

\* catch (err) { console.error('Failed to parse server message:', err) }
ParseFailure == NoSinkCalls

\* JSON.parse(event.data) throws on text that is not JSON; on JSON null,
\* response.setupComplete throws inside handleServerMessage.
ParseThrows(data) == data \in {"malformed", "null"}

\* handleServerMessage(response): onMessage(part.text) for each text part of
\* serverContent; every other shape is logged.
WsHandleServerMessage(data) ==
  IF data = "text" THEN [NoSinkCalls EXCEPT !.messages = << <<"A">> >>]
  ELSE NoSinkCalls

\* ws.onmessage: try { handleServerMessage(JSON.parse(event.data)) } catch ...
WsMessageCalls(data) ==
  IF ParseThrows(data) THEN ParseFailure ELSE WsHandleServerMessage(data)

\* isConnected(): this.ws?.readyState === WebSocket.OPEN
WsIsConnected == ws # Null /\ connState[ws] = "open"

(* connect(): returns when the socket is open or a connection is in         *)
(* progress; otherwise notifies 'connecting' and creates the WebSocket.     *)
WsConnect ==
  /\ ~WsIsConnected
  /\ ~isConnecting
  /\ nextConn <= MaxConns
  /\ nextConn' = nextConn + 1
  /\ isConnecting' = TRUE
  /\ ws' = nextConn
  /\ connState' = [connState EXCEPT ![nextConn] = "opening"]
  /\ statusLog' = Append(statusLog, "connecting")
  /\ callLog' = Append(callLog, Call("connecting", nextConn))
  /\ UNCHANGED <<sessVars, timers, nextTimer, reconnectPending, msgCount, errorCount, emitted,
                 sent, handshakes, sendVars, accObs, errorWatch, systemInstruction,
                 setupInstruction, afterDisconnect, reconnected, videoVars, orphaned,
                 cameraState, cameraCalls>>

(* ws.onopen of socket c: 'connected', then sendSetup() on this.ws.         *)
WsOnOpen(c) ==
  /\ connState[c] = "opening"
  /\ connState' = [connState EXCEPT ![c] = "open"]
  /\ isConnecting' = FALSE
  /\ statusLog' = Append(statusLog, "connected")
  /\ handshakes' = IF ws # Null /\ connState'[ws] = "open" THEN handshakes \cup {ws}
                   ELSE handshakes
  /\ callLog' = Append(callLog, Call("connected", c))
  /\ UNCHANGED <<sessVars, nextConn, timers, nextTimer, reconnectPending, msgCount, errorCount,
                 emitted, sent, sendVars, accObs, errorWatch, systemInstruction,
                 setupInstruction, afterDisconnect, reconnected, videoVars, orphaned,
                 cameraState, cameraCalls, ws>>

(* ws.onmessage of socket c with payload data.                              *)
WsOnMessage(c, data) ==
  /\ connState[c] = "open"
  /\ msgCount < MaxMsgs
  /\ msgCount' = msgCount + 1
  /\ LET calls == WsMessageCalls(data)
     IN /\ emitted' = emitted \o calls.messages
        /\ errorCount' = errorCount + calls.errors
        /\ statusLog' = statusLog \o calls.statuses
  /\ callLog' = IF ParseThrows(data) THEN Append(callLog, Call("unparsed", c))
                ELSE IF data = "text" THEN Append(callLog, Call("text", c))
                ELSE callLog
  /\ UNCHANGED <<sessVars, connState, nextConn, timers, nextTimer, reconnectPending, sent,
                 handshakes, sendVars, accObs, errorWatch, systemInstruction,
                 setupInstruction, afterDisconnect, reconnected, videoVars, orphaned,
                 cameraState, cameraCalls, ws, isConnecting>>

(* ws.onclose of socket c: the remote end closes it, or it fails to open.   *)
WsOnClose(c) ==
  /\ connState[c] \in {"opening", "open"}
  /\ connState' = [connState EXCEPT ![c] = "closed"]
  /\ isConnecting' = FALSE
  /\ statusLog' = Append(statusLog, "disconnected")
  /\ callLog' = Append(callLog, Call("disconnected", c))
  /\ UNCHANGED <<sessVars, nextConn, timers, nextTimer, reconnectPending, msgCount, errorCount,
                 emitted, sent, handshakes, sendVars, accObs, errorWatch, systemInstruction,
                 setupInstruction, afterDisconnect, reconnected, videoVars, orphaned,
                 cameraState, cameraCalls, ws>>

----------------------------------------------------------------------------
(* Specifications *)

Init ==
  /\ session = Null
  /\ accumulatedText = <<>>
  /\ textAccumulationTimer = Null
  /\ connState = [c \in ConnIds |-> "none"]
  /\ nextConn = 1
  /\ timers = [t \in {} |-> 0]
  /\ nextTimer = 1
  /\ reconnectPending = 0
  /\ msgCount = 0
  /\ statusLog = <<>>
  /\ errorCount = 0
  /\ emitted = <<>>
  /\ sent = <<>>
  /\ handshakes = {}
  /\ nextFrame = 1
  /\ dropped = {}
  /\ sendThrew = FALSE
  /\ turn = [frags |-> <<>>, expired |-> FALSE, events |-> <<>>]
  /\ lastTurn = [done |-> FALSE, frags |-> <<>>, expired |-> FALSE, events |-> <<>>,
                 flushed |-> FALSE,
                 hadPending |-> FALSE, hadText |-> FALSE, pendingAfter |-> {}]
  /\ idle = [since |-> IdleDelayMs, pending |-> <<>>]
  /\ lastIdleFlush = [done |-> FALSE, elapsed |-> 0, out |-> <<>>, expect |-> <<>>,
                      afterDisconnect |-> FALSE, closed |-> FALSE]
  /\ delivered = <<>>
  /\ cancelled = {}
  /\ fired = {}
  /\ errorWatch = WatchOff
  /\ systemInstruction = 0
  /\ setupInstruction = [c \in ConnIds |-> 0]
  /\ callLog = <<>>
  /\ afterDisconnect = FALSE
  /\ reconnected = {}
  /\ started = FALSE
  /\ geminiSession = FALSE
  /\ isStreaming = FALSE
  /\ connectionStatus = "disconnected"
  /\ frameIntervalId = Null
  /\ intervals = {}
  /\ videoRecorder = Null
  /\ recorders = [r \in RunIds |-> NoRecorder]
  /\ micLive = {}
  /\ nextRun = 1
  /\ recordingPending = 0
  /\ promptPending = 0
  /\ lastStop = NoStop
  /\ errorMessage = ""
  /\ orphaned = {}
  /\ cameraState = [currentCamera |-> Null, isActive |-> FALSE, isScreenSharing |-> FALSE]
  /\ cameraCalls = <<>>
  /\ ws = Null
  /\ isConnecting = FALSE

(* The session under every interleaving of its caller's operations and the  *)
(* transport's callbacks.                                                   *)
Next ==
  \/ Connect /\ UNCHANGED compVars
  \/ \E c \in ConnIds : TransportOpen(c) /\ UNCHANGED compVars
  \/ \E c \in ConnIds : OnError(c) /\ UNCHANGED compVars
  \/ \E c \in ConnIds : OnClose(c) /\ UNCHANGED compVars
  \/ Disconnect /\ UNCHANGED compVars
  \/ UpdateSystemInstruction /\ UNCHANGED compVars
  \/ ReconnectTimer /\ UNCHANGED compVars
  \/ SendVideoFrame /\ UNCHANGED compVars

Spec == Init /\ [][Next]_vars

(* One connected session receiving messages while time passes: the text     *)
(* accumulator.                                                             *)
NextAcc ==
  \/ nextConn = 1 /\ Connect /\ UNCHANGED compVars
  \/ \E c \in ConnIds : TransportOpen(c) /\ UNCHANGED compVars
  \/ \E c \in ConnIds, text \in FragmentTexts, marker \in TurnMarkers :
       HandleServerMessage(c, text, marker) /\ UNCHANGED compVars
  \/ \E id \in DOMAIN timers : TimerFire(id) /\ UNCHANGED compVars
  \/ Tick /\ UNCHANGED compVars

SpecAcc == Init /\ [][NextAcc]_vars

(* One session receiving messages while time passes, until its caller       *)
(* disconnects it and the connection closes.                                *)
NextTeardown ==
  \/ nextConn = 1 /\ Connect /\ UNCHANGED compVars
  \/ \E c \in ConnIds : TransportOpen(c) /\ UNCHANGED compVars
  \/ \E c \in ConnIds, text \in FragmentTexts, marker \in TurnMarkers :
       HandleServerMessage(c, text, marker) /\ UNCHANGED compVars
  \/ \E id \in DOMAIN timers : TimerFire(id) /\ UNCHANGED compVars
  \/ Tick /\ UNCHANGED compVars
  \/ Disconnect /\ UNCHANGED compVars
  \/ \E c \in ConnIds : OnClose(c) /\ UNCHANGED compVars

SpecTeardown == Init /\ [][NextTeardown]_vars

(* The senders of a session that connects, disconnects and is closed by the *)
(* remote end; its caller connects again once the previous attempt is over. *)
NextSend ==
  \/ (\A c \in ConnIds : connState[c] # "opening") /\ Connect /\ UNCHANGED compVars
  \/ \E c \in ConnIds : TransportOpen(c) /\ UNCHANGED compVars
  \/ \E c \in ConnIds : OnClose(c) /\ UNCHANGED compVars
  \/ Disconnect /\ UNCHANGED compVars
  \/ SendVideoFrame /\ UNCHANGED compVars
  \/ SendAudioChunk /\ UNCHANGED compVars
  \/ \E hasText \in BOOLEAN, hasFrame \in BOOLEAN, tc \in BOOLEAN :
       SendPrompt(hasText, hasFrame, tc) /\ UNCHANGED compVars

SpecSend == Init /\ [][NextSend]_vars

(* Connections that open, fail to open, or are closed, with the caller      *)
(* connecting and disconnecting.                                            *)
NextConnect ==
  \/ Connect /\ UNCHANGED compVars
  \/ \E c \in ConnIds : TransportOpen(c) /\ UNCHANGED compVars
  \/ \E c \in ConnIds : OnError(c) /\ UNCHANGED compVars
  \/ \E c \in ConnIds : OnClose(c) /\ UNCHANGED compVars
  \/ Disconnect /\ UNCHANGED compVars

SpecConnect == Init /\ [][NextConnect]_vars

(* A session and what its connections deliver besides text: the handshake   *)
(* acknowledgement and messages with an error payload.                      *)
NextInbound ==
  \/ Connect /\ UNCHANGED compVars
  \/ \E c \in ConnIds : TransportOpen(c) /\ UNCHANGED compVars
  \/ \E c \in ConnIds : SetupComplete(c) /\ UNCHANGED compVars
  \/ \E c \in ConnIds : RemoteError(c) /\ UNCHANGED compVars
  \/ \E c \in ConnIds : OnClose(c) /\ UNCHANGED compVars
  \/ SendVideoFrame /\ UNCHANGED compVars

SpecInbound == Init /\ [][NextInbound]_vars

(* The video component driving one GeminiLiveSession.                       *)
NextVideo ==
  \/ StartStreaming
  \/ \E c \in ConnIds : VideoTransportOpen(c)
  \/ \E c \in ConnIds : VideoOnError(c)
  \/ \E c \in ConnIds : VideoOnClose(c)
  \/ StartVideoRecording
  \/ \E r \in RunIds : MicGranted(r)
  \/ \E r \in RunIds : MicDenied(r)
  \/ \E i \in RunIds : FrameTick(i)
  \/ InitialPrompt
  \/ HandleResetPrompt
  \/ VideoReconnectTimer
  \/ StopStreaming

SpecVideo == Init /\ [][NextVideo]_vars

(* The video component's first streaming run: start, the session's          *)
(* callbacks, the delayed recording start, the microphone, and stop.        *)
NextStop ==
  \/ StartStreaming
  \/ \E c \in ConnIds : VideoTransportOpen(c)
  \/ \E c \in ConnIds : VideoOnError(c)
  \/ \E c \in ConnIds : VideoOnClose(c)
  \/ StartVideoRecording
  \/ \E r \in RunIds : MicGranted(r)
  \/ \E r \in RunIds : MicDenied(r)
  \/ StopStreaming

SpecStop == Init /\ [][NextStop]_vars

(* The video component streaming while the microphone request is granted or *)
(* refused: start, the first connection opening, the delayed recording      *)
(* start, the frame timer, the initial prompt, and stop.                     *)
NextAudio ==
  \/ StartStreaming
  \/ \E c \in ConnIds : VideoTransportOpen(c)
  \/ StartVideoRecording
  \/ \E r \in RunIds : MicGranted(r)
  \/ \E r \in RunIds : MicDenied(r)
  \/ \E i \in RunIds : FrameTick(i)
  \/ InitialPrompt
  \/ StopStreaming

SpecAudio == Init /\ [][NextAudio]_vars

(* The video component's frame timer: start, the status callbacks of the    *)
(* first connection and of the reconnects of updateSystemInstruction, the   *)
(* delayed recording start, and stop.                                       *)
NextTimer ==
  \/ StartStreaming
  \/ \E c \in ConnIds : VideoTransportOpen(c)
  \/ \E c \in ConnIds : VideoOnError(c)
  \/ \E c \in ConnIds : VideoOnClose(c)
  \/ StartVideoRecording
  \/ HandleResetPrompt
  \/ VideoReconnectTimer
  \/ StopStreaming

SpecTimer == Init /\ [][NextTimer]_vars

(* The video component started, stopped and started again: the callbacks   *)
(* of its current session and of the sessions it replaced.                  *)
NextRestart ==
  \/ StartStreaming
  \/ RestartStreaming
  \/ \E c \in ConnIds : VideoTransportOpen(c)
  \/ \E c \in ConnIds : OrphanTransportOpen(c)
  \/ \E c \in ConnIds : VideoOnClose(c)
  \/ \E c \in ConnIds : OrphanOnClose(c)
  \/ StartVideoRecording
  \/ StopStreaming

SpecRestart == Init /\ [][NextRestart]_vars

(* The camera store under every sequence of calls of its two setters.       *)
NextCamera ==
  \/ \E camera \in CameraDevices \cup {Null} : SetCurrentCamera(camera)
  \/ \E isActive \in BOOLEAN : SetScreenSharingActive(isActive)

SpecCamera == Init /\ [][NextCamera]_vars

(* The WebSocket session: connecting, its sockets opening and closing, and  *)
(* the message events of an open socket.                                    *)
NextWs ==
  \/ WsConnect
  \/ \E c \in ConnIds : WsOnOpen(c)
  \/ \E c \in ConnIds, data \in WsPayloads : WsOnMessage(c, data)
  \/ \E c \in ConnIds : WsOnClose(c)

SpecWs == Init /\ [][NextWs]_vars

----------------------------------------------------------------------------
(* Properties *)

KeptFragments(frags) == SelectSeq(frags, NonBlank)

(* C1, as stated: when a turn-complete marker closes a sequence of fragments *)
(* during which no idle timer expired, onMessage was called exactly once,    *)
(* with the trimmed concatenation of all the fragments.                      *)
C1_AllFragmentsEmitted ==
  (lastTurn.done /\ ~lastTurn.expired /\ Len(lastTurn.frags) > 0)
    => lastTurn.events = <<Trim(Concat(lastTurn.frags))>>

(* C1, amended: when a turn-complete marker closes a sequence of fragments   *)
(* during which no idle timer expired, onMessage was called exactly once if  *)
(* some fragment has non-whitespace content, with the trimmed concatenation  *)
(* of the fragments that are not whitespace-only, and not at all otherwise.  *)
C1_KeptFragmentsEmitted ==
  (lastTurn.done /\ ~lastTurn.expired)
    => IF KeptFragments(lastTurn.frags) = <<>>
       THEN lastTurn.events = <<>>
       ELSE lastTurn.events = <<Trim(Concat(KeptFragments(lastTurn.frags)))>>

C1_Witness ==
  /\ lastTurn.done
  /\ ~lastTurn.expired
  /\ Len(lastTurn.frags) = 3
  /\ \E i \in 1..3 : ~NonBlank(lastTurn.frags[i])
  /\ Len(KeptFragments(lastTurn.frags)) = 2
  /\ Len(lastTurn.events) = 1

(* C2: the non-whitespace text of all fragments delivered so far is exactly  *)
(* the text of the events emitted so far followed by the text still in the   *)
(* buffer (nothing lost, nothing twice, order kept), and buffered text       *)
(* always has a pending flush timer.                                         *)
C2_ExactlyOnceFlush ==
  /\ Squeeze(Concat(emitted) \o accumulatedText) = delivered
  /\ Len(accumulatedText) > 0 => textAccumulationTimer \in DOMAIN timers

C2_Witness ==
  /\ lastIdleFlush.done
  /\ lastTurn.done
  /\ lastTurn.flushed
  /\ Len(emitted) = 2
  /\ Len(accumulatedText) > 0

(* C3: an event of the idle timer is emitted only once the idle delay has    *)
(* elapsed since the last fragment with content, and carries the trimmed     *)
(* concatenation of the fragments with content since the previous event;     *)
(* while such fragments wait, the pending timer is due exactly one idle      *)
(* delay after the last of them.                                             *)
C3_IdleFlush ==
  /\ lastIdleFlush.done =>
       /\ lastIdleFlush.elapsed >= IdleDelayMs
       /\ lastIdleFlush.out = lastIdleFlush.expect
  /\ Len(idle.pending) > 0 =>
       /\ textAccumulationTimer \in DOMAIN timers
       /\ timers[textAccumulationTimer] = IdleDelayMs - idle.since

C3_Witness ==
  /\ lastIdleFlush.done
  /\ lastIdleFlush.out = <<"A", "B">>
  /\ emitted = << <<"A", "B">> >>
  /\ ~lastTurn.done

(* C4: a turn-complete marker handled while the buffer holds text and the    *)
(* idle timer is pending emits the event in that very step and leaves no     *)
(* timer pending; a timer cancelled with clearTimeout never runs.            *)
C4_TurnCompleteOverridesTimer ==
  /\ (lastTurn.done /\ lastTurn.hadText /\ lastTurn.hadPending) =>
       /\ lastTurn.flushed
       /\ lastTurn.pendingAfter = {}
  /\ cancelled \cap fired = {}
  /\ cancelled \cap DOMAIN timers = {}

C4_Witness ==
  /\ lastTurn.done
  /\ lastTurn.hadText
  /\ lastTurn.hadPending
  /\ lastTurn.flushed
  /\ cancelled # {}
  /\ ~lastTurn.expired

(* C5: no Description Event is empty or whitespace-only.                     *)
C5_NoEmptyEvents ==
  \A i \in 1..Len(emitted) : Len(emitted[i]) > 0 /\ NonBlank(emitted[i])

C5_Witness ==
  /\ lastTurn.done
  /\ ~lastTurn.hadText
  /\ lastTurn.frags = <<>>
  /\ ~lastTurn.flushed
  /\ Len(emitted) > 0

(* C6: content handed to sendVideoFrame, sendAudioChunk or sendPrompt while  *)
(* the session is not connected is never transmitted, then or later, and no  *)
(* send call throws.                                                         *)
C6_DropWhenNotConnected ==
  /\ ~sendThrew
  /\ \A i \in 1..Len(sent) : sent[i].id \notin dropped

C6_Witness ==
  /\ dropped # {}
  /\ session # Null
  /\ connState[session] = "open"
  /\ Len(sent) > 0

Opening == {c \in ConnIds : connState[c] = "opening"}
OpenOrOpening == {c \in ConnIds : connState[c] \in {"opening", "open"}}

(* C7, as stated: connect() called while an earlier connect() is still       *)
(* connecting opens no second connection and notifies no second              *)
(* `connecting`: every `connecting` notified so far belongs to a connection  *)
(* that is no longer opening, but for at most one.                           *)
C7_IdempotentConnect ==
  /\ Cardinality(Opening) <= 1
  /\ \A i \in 1..(Len(statusLog) - 1) :
       ~(statusLog[i] = "connecting" /\ statusLog[i + 1] = "connecting")

(* C8, as stated: at most one connection is open or opening, and every open  *)
(* connection is the one the session's handle refers to.                     *)
C8_SingleConnection ==
  /\ Cardinality(OpenOrOpening) <= 1
  /\ \A c \in ConnIds : connState[c] = "open" => session = c

(* C9, as stated: after a transport error of a connected session, onError    *)
(* was called once, onStatus('disconnected') once, and no frame was          *)
(* transmitted since.                                                        *)
C9_ErrorMidSession ==
  errorWatch.active =>
    /\ errorWatch.errors = 1
    /\ errorWatch.disconnected = 1
    /\ ~errorWatch.transmitted

IndexOf(seq, x) == IF \E i \in 1..Len(seq) : seq[i] = x
                   THEN CHOOSE i \in 1..Len(seq) : seq[i] = x
                   ELSE 0

(* C10: every stopStreaming clears the frame timer first, then stops the     *)
(* audio pipeline and the microphone track, and closes the transport last;   *)
(* the timer and the track are released also when closing throws.            *)
C10_TeardownOrder ==
  lastStop.ran =>
    /\ lastStop.hadTimer => (IndexOf(lastStop.effects, "clearInterval") = 1 /\ ~lastStop.timerLeft)
    /\ lastStop.hadMic => ("track.stop" \in Range(lastStop.effects) /\ ~lastStop.micLeft)
    /\ lastStop.hadSession => IndexOf(lastStop.effects, "session.close") = Len(lastStop.effects)
    /\ \A i, j \in 1..Len(lastStop.effects) :
         (lastStop.effects[i] = "clearInterval" /\ i # j) => i < j

C10_Witness ==
  /\ lastStop.ran
  /\ lastStop.threw
  /\ lastStop.hadTimer
  /\ lastStop.hadMic
  /\ lastStop.hadSession
  /\ lastStop.effects = <<"clearInterval", "audioContext.close", "track.stop", "session.close">>

IsStatus(e) == e.call \in {"connecting", "connected", "disconnected"}
StatusCalls == SelectSeq(callLog, IsStatus)
CallsOf(name, c) == Cardinality({i \in 1..Len(callLog) : callLog[i] = Call(name, c)})
Settled(c) == connState[c] \in {"none", "failed", "closed"}

(* C11, as stated: the status notifications follow disconnected ->          *)
(* connecting -> connected -> disconnected: `connected` directly follows a  *)
(* `connecting`, `connecting` follows nothing or a `disconnected`,           *)
(* `disconnected` never follows a `disconnected`, and no notification of an  *)
(* older connection comes after the `connecting` of a newer one.             *)
C11_StatusStateMachine ==
  LET log == StatusCalls
  IN \A i \in 1..Len(log) :
       /\ log[i].call = "connected" => (i > 1 /\ log[i - 1].call = "connecting")
       /\ log[i].call = "connecting" => (i = 1 \/ log[i - 1].call = "disconnected")
       /\ log[i].call = "disconnected" => (i > 1 /\ log[i - 1].call # "disconnected")
       /\ \A j \in 1..Len(log) :
            (i < j /\ log[i].call = "connecting") => log[j].conn >= log[i].conn

(* C12, as stated: every `connected` notification of a connection comes      *)
(* after the handshake acknowledgement (setupComplete) of that connection,   *)
(* and handling an acknowledgement emits no description.                     *)
C12_AckDrivesConnected ==
  \A i \in 1..Len(callLog) :
    /\ callLog[i].call = "connected" =>
         \E j \in 1..(i - 1) : callLog[j] = Call("setupComplete", callLog[i].conn)
    /\ callLog[i].call = "setupComplete" => emitted = <<>>

(* C13, as stated: once disconnect() has returned and until connect() is     *)
(* called again, the session has no handle and none of its connections is    *)
(* open.                                                                     *)
C13_DisconnectLeavesDisconnected ==
  afterDisconnect =>
    /\ session = Null
    /\ \A c \in ConnIds : connState[c] # "open"

FailedToOpen(c) ==
  /\ connState[c] \in {"failed", "errored", "closed"}
  /\ Call("connected", c) \notin Range(callLog)

(* C14: for a connection that failed to open, onError was called exactly     *)
(* once and onStatus('disconnected') after it, the session's handle does not *)
(* refer to it, and with every other connection settled the handle is null,  *)
(* so that connect() starts a fresh attempt; a step that reports an error    *)
(* starts no connection and schedules no reconnect.                          *)
C14_ConnectFailure ==
  /\ [](\A c \in ConnIds : FailedToOpen(c) =>
          /\ CallsOf("error", c) = 1
          /\ \E i, j \in 1..Len(callLog) :
               /\ i < j
               /\ callLog[i] = Call("error", c)
               /\ callLog[j] = Call("disconnected", c)
          /\ session # c
          /\ (\A d \in ConnIds \ {c} : Settled(d)) => ~AlreadyConnected(session))
  /\ [][errorCount' > errorCount =>
          /\ reconnectPending' = reconnectPending
          /\ Opening' \subseteq Opening]_vars

C14_Witness ==
  /\ connState[1] = "failed"
  /\ FailedToOpen(1)
  /\ connState[2] = "open"
  /\ session = 2
  /\ errorCount = 1

(* C15, as stated: once the connection started by the delayed reconnect of   *)
(* updateSystemInstruction is open and every other connection is settled,    *)
(* the session's handle refers to it (isConnected() is true) and its         *)
(* handshake carried the instruction that was configured when it started.    *)
C15_ReconnectAfterUpdate ==
  \A r \in reconnected :
    (connState[r] = "open" /\ \A c \in ConnIds \ {r} : Settled(c)) =>
      /\ session = r
      /\ setupInstruction[r] > 0

(* C16: when the message that carries the turn-complete marker also carries  *)
(* a fragment with content, the event emitted for that message ends with     *)
(* that fragment: it is the trimmed concatenation of the turn's last kept    *)
(* fragments, of all of them if no idle timer expired in the turn, and the   *)
(* session stays connected.                                                  *)
C16_FragmentWithTurnComplete ==
  (/\ lastTurn.done
   /\ msgCount > 0
   /\ Len(lastTurn.frags) = msgCount
   /\ NonBlank(lastTurn.frags[msgCount])) =>
    LET kept == KeptFragments(lastTurn.frags)
        n == Len(lastTurn.events)
    IN /\ lastTurn.flushed
       /\ n > 0
       /\ \E k \in 1..Len(kept) :
            lastTurn.events[n] = Trim(Concat(SubSeq(kept, k, Len(kept))))
       /\ ~lastTurn.expired => lastTurn.events = <<Trim(Concat(kept))>>
       /\ session # Null
       /\ connState[session] = "open"

C16_Witness ==
  /\ msgCount = 2
  /\ lastTurn.done
  /\ lastTurn.frags = << <<"A">>, <<" ", "A">> >>
  /\ lastTurn.events = << <<"A", " ", "A">> >>
  /\ emitted = << <<"A", " ", "A">> >>
  /\ session # Null

(* C17, as stated: every turn with content yields exactly one event, which   *)
(* carries the whole turn.                                                   *)
C17_OneEventPerTurn ==
  (lastTurn.done /\ KeptFragments(lastTurn.frags) # <<>>) =>
    lastTurn.events = <<Trim(Concat(KeptFragments(lastTurn.frags)))>>

(* C18: between callbacks the buffer is non-empty only while the flush timer *)
(* its handle names is pending, and every callback that emits an event       *)
(* leaves the buffer empty.                                                  *)
C18_BufferInvariant ==
  /\ [](Len(accumulatedText) > 0 =>
          (textAccumulationTimer # Null /\ textAccumulationTimer \in DOMAIN timers))
  /\ [][emitted' # emitted => accumulatedText' = <<>>]_vars

C18_Witness ==
  /\ Len(emitted) = 1
  /\ Len(accumulatedText) > 0
  /\ textAccumulationTimer \in DOMAIN timers
  /\ fired # {}

(* C19, as stated: handling an inbound message with an error payload calls   *)
(* onError in the same callback.                                             *)
C19_RemoteErrorReported ==
  \A i \in 1..Len(callLog) :
    callLog[i].call = "remoteError" =>
      (i < Len(callLog) /\ callLog[i + 1] = Call("error", callLog[i].conn))

(* C20, as stated: a frame timer is active only after `connected` was        *)
(* reported, at most one is active, and none is active once stopStreaming    *)
(* has run.                                                                  *)
C20_FrameTimerLifecycle ==
  /\ intervals # {} => "connected" \in Range(statusLog)
  /\ Cardinality(intervals) <= 1
  /\ (lastStop.ran /\ ~lastStop.threw /\ ~geminiSession) => intervals = {}

(* C21, as stated: once stopStreaming has run and the component holds no     *)
(* recorder, no microphone track acquired by a recorder is live.             *)
C21_MicrophoneReleased ==
  (lastStop.ran /\ videoRecorder = Null) => micLive = {}

(* C22: when the microphone request of a recorder fails, the callback that   *)
(* handles the failure shows the microphone error and leaves the session,    *)
(* its connection, the frame timer and the streaming flags as they were,     *)
(* without running stopStreaming; the frame timer goes on sending.           *)
C22_AudioFailureNonFatal ==
  [][\A r \in RunIds :
       (recorders[r].awaitingMic /\ recorders'[r].micFailedAt > 0) =>
         /\ errorMessage' = "microphone"
         /\ session' = session
         /\ connState' = connState
         /\ geminiSession' = geminiSession
         /\ isStreaming' = isStreaming
         /\ connectionStatus' = connectionStatus
         /\ frameIntervalId' = frameIntervalId
         /\ intervals' = intervals
         /\ videoRecorder' = videoRecorder
         /\ lastStop' = lastStop]_vars

C22_Witness ==
  /\ ~lastStop.ran
  /\ errorMessage = "microphone"
  /\ session # Null
  /\ connState[session] = "open"
  /\ \E r \in RunIds :
       /\ recorders[r].micFailedAt > 0
       /\ frameIntervalId = r
       /\ \E i \in 1..Len(sent) :
            sent[i].kind = "video" /\ sent[i].id >= recorders[r].micFailedAt

TextInputs == SelectSeq(callLog, LAMBDA e : e.call = "text")

(* C23: a message event whose payload cannot be parsed calls none of         *)
(* onMessage, onError and onStatus and leaves the socket and the session's   *)
(* connection state as they were; every well-formed text message, before or  *)
(* after it, is delivered to onMessage.                                      *)
C23_MalformedMessageDropped ==
  /\ [](Len(emitted) = Len(TextInputs))
  /\ [][\A c \in ConnIds :
          callLog' = Append(callLog, Call("unparsed", c)) =>
            /\ emitted' = emitted
            /\ errorCount' = errorCount
            /\ statusLog' = statusLog
            /\ ws' = ws
            /\ isConnecting' = isConnecting
            /\ connState' = connState]_vars

C23_Witness ==
  /\ WsIsConnected
  /\ \E i, j \in 1..Len(callLog) :
       /\ i < j
       /\ callLog[i] = Call("unparsed", ws)
       /\ callLog[j] = Call("text", ws)
  /\ Len(emitted) >= 1
  /\ errorCount = 0
  /\ statusLog[Len(statusLog)] = "connected"

\* What sendPrompt has to put on a connected session's transport, in order.
PromptMessages(hasText, hasFrame, turnComplete) ==
  (IF hasFrame
   THEN <<[conn |-> session, kind |-> "video", id |-> nextFrame, turnComplete |-> FALSE]>>
   ELSE <<>>)
  \o (IF hasText
      THEN <<[conn |-> session, kind |-> "text", id |-> nextFrame,
              turnComplete |-> turnComplete]>>
      ELSE <<>>)

(* C24: on a connected session, sendPrompt adds to what was transmitted      *)
(* exactly the video message of its frame, if any, followed by the turn      *)
(* message of its text with the given turnComplete flag, if any, and nothing *)
(* when it has neither; the messages of successive send calls are            *)
(* transmitted in call order.                                                *)
C24_SendPromptOrder ==
  /\ [](\A i \in 1..(Len(sent) - 1) : sent[i].id <= sent[i + 1].id)
  /\ [][\A hasText \in BOOLEAN, hasFrame \in BOOLEAN, turnComplete \in BOOLEAN :
          (SendPrompt(hasText, hasFrame, turnComplete)
             /\ session # Null /\ connState[session] = "open")
            => sent' = sent \o PromptMessages(hasText, hasFrame, turnComplete)]_vars

C24_Witness ==
  /\ session # Null
  /\ connState[session] = "open"
  /\ Len(sent) = 3
  /\ sent[1].id < sent[2].id
  /\ sent[2].kind = "video"
  /\ sent[3].kind = "text"
  /\ sent[3].id = sent[2].id
  /\ ~sent[3].turnComplete

(* C25: at most one idle-flush timer is outstanding, it is the one the       *)
(* handle names, and the handle is non-null only while its timer is pending. *)
C25_SinglePendingFlushTimer ==
  /\ Cardinality(DOMAIN timers) <= 1
  /\ DOMAIN timers \subseteq {textAccumulationTimer}
  /\ textAccumulationTimer # Null => textAccumulationTimer \in DOMAIN timers

C25_Witness ==
  /\ cancelled # {}
  /\ fired # {}
  /\ textAccumulationTimer # Null
  /\ DOMAIN timers = {textAccumulationTimer}
  /\ nextTimer > 3

(* C26, as stated: an idle-flush timer never delivers a description once     *)
(* disconnect() has been called on the session or its connection has closed. *)
C26_NoDescriptionAfterTeardown ==
  lastIdleFlush.done => (~lastIdleFlush.afterDisconnect /\ ~lastIdleFlush.closed)

(* C27, as stated: between callbacks, isConnected() is true exactly when the *)
(* most recent status notification of the session was `connected`.           *)
C27_IsConnectedAgreesWithStatus ==
  (session # Null) <=> (Len(statusLog) > 0 /\ statusLog[Len(statusLog)] = "connected")

(* C28, as stated: once stopStreaming has run to its end, the component's    *)
(* status stays `disconnected` and none of its session's connections is or   *)
(* becomes open.                                                             *)
C28_StopIsFinal ==
  (lastStop.ran /\ ~lastStop.threw /\ ~geminiSession) =>
    /\ connectionStatus = "disconnected"
    /\ \A c \in ConnIds : connState[c] # "open"

(* C29, as stated: every open or opening connection belongs to the session  *)
(* the component references, never to a session it has replaced.             *)
C29_OneSessionPerComponent ==
  \A c \in ConnIds : connState[c] \in {"opening", "open"} => c \notin orphaned

(* C30, as stated: after every sequence of setCurrentCamera and              *)
(* setScreenSharingActive calls, isActive is true exactly when a camera is   *)
(* set or the screen is shared, and a camera is set only when the screen is  *)
(* not shared.                                                               *)
C30_CameraStoreInvariant ==
  /\ cameraState.isActive <=>
       (cameraState.currentCamera # Null \/ cameraState.isScreenSharing)
  /\ cameraState.currentCamera # Null => ~cameraState.isScreenSharing

====
